---- MODULE Spec2Model ----
(***************************************************************************)
(* A model of spdx_deps.py: the pipeline of main() over one parsed SBOM    *)
(* document.  Python dicts keep insertion order, so a dict is a record     *)
(* [keys |-> sequence of keys in insertion order, val |-> key :> value].   *)
(* Every function of the source is an operator computed the way the code   *)
(* computes it; every call main() makes is one action.                     *)
(***************************************************************************)
EXTENDS Integers, Sequences, FiniteSets, TLC

VARIABLES sbom, pc, error, packages, dependencies, duplicates, frequencies,
          sccs, cycles, stdout, files

(* sbom          the parsed document main() loads (json.load)              *)
(* pc, error     the call main() makes next; the exception that ended it  *)
(* packages ... cycles   the locals of main(); sccs is the local of       *)
(*               get_cyclic_sccs holding get_sccs_kosaraju's result       *)
(* stdout        the lines printed, files the files written, by name      *)

vars == <<sbom, pc, error, packages, dependencies, duplicates, frequencies,
          sccs, cycles, stdout, files>>

-----------------------------------------------------------------------------
(* Bounds of the input document.  A document is arbitrary (any identifier *)
(* anywhere, a component record possibly without SPDXID, at most MaxPkgs   *)
(* component records and MaxRels relationship records), named (at most MaxNamed component records with or without a   *)
(* name, no relationship) or well formed (every real component listed      *)
(* once, at most MaxEdges dependency records among them).                  *)

MaxPkgs == 1

MaxRels == 2

MaxNamed == 3

MaxEdges == 3

(* The identifiers a document may use, in sorted (str) order.              *)
IdOrder == <<"A", "B", "C", "SPDXRef-DocumentRoot-x">>

Ids == {IdOrder[i] : i \in 1..Len(IdOrder)}

RealOrder == <<"A", "B", "C">>

RealIds == {RealOrder[i] : i \in 1..Len(RealOrder)}

SmallIds == {"A", "B", "SPDXRef-DocumentRoot-x"}

Names == {"libfoo", "A"}

Absent == "<absent>"

None == "<None>"

(* Each string as the sequence of the pieces it is spelled with.           *)
Spelling(s) ==
    CASE s = "SPDXRef-DocumentRoot-x" -> <<"SPDXRef-DocumentRoot", "-x">>
      [] s = "SPDXRef-DocumentRoot" -> <<"SPDXRef-DocumentRoot">>
      [] OTHER -> <<s>>

startswith(s, prefix) ==
    LET a == Spelling(s)
        b == Spelling(prefix)
    IN Len(a) >= Len(b) /\ SubSeq(a, 1, Len(b)) = b

PkgRecords(ids, names) == [SPDXID : ids, name : names]

DepRecords(ids) == [relationshipType : {"DEPENDENCY_OF"}, spdxElementId : ids,
                    relatedSpdxElement : ids]

OtherRecords == [relationshipType : {"CONTAINS"}, spdxElementId : {"A"},
                 relatedSpdxElement : {"B"}]

SeqsUpTo(S, n) == UNION {[1..k -> S] : k \in 0..n}

ArbitraryDocuments ==
    [packages : SeqsUpTo(PkgRecords(SmallIds \cup {None}, {Absent}), MaxPkgs),
     relationships : SeqsUpTo(DepRecords(SmallIds) \cup OtherRecords, MaxRels)]

NamedDocuments ==
    [packages : SeqsUpTo(PkgRecords(RealIds, Names \cup {Absent}), MaxNamed),
     relationships : {<<>>}]

WellFormedDocuments ==
    [packages : {[i \in 1..Len(RealOrder) |->
                     [SPDXID |-> RealOrder[i], name |-> Absent]]},
     relationships : SeqsUpTo(DepRecords(RealIds), MaxEdges)]

Documents == ArbitraryDocuments \cup NamedDocuments \cup WellFormedDocuments

-----------------------------------------------------------------------------
(* Python containers. *)

EmptyDict == [keys |-> <<>>, val |-> <<>>]

Keys(d) == {d.keys[i] : i \in 1..Len(d.keys)}

DictSet(d, k, v) ==
    IF k \in Keys(d)
    THEN [d EXCEPT !.val = [x \in Keys(d) |-> IF x = k THEN v ELSE d.val[x]]]
    ELSE [keys |-> Append(d.keys, k),
          val |-> [x \in Keys(d) \cup {k} |-> IF x = k THEN v ELSE d.val[x]]]

(* defaultdict.__getitem__: a missing key is inserted with the default.    *)
Touch(d, k, default) == IF k \in Keys(d) THEN d ELSE DictSet(d, k, default)

Range(s) == {s[i] : i \in 1..Len(s)}

Rank(id) == CHOOSE i \in 1..Len(IdOrder) : IdOrder[i] = id

-----------------------------------------------------------------------------
(* get_packages *)

RECURSIVE get_packages_loop(_, _, _)
get_packages_loop(pkgs, i, acc) ==
    IF i > Len(pkgs) THEN acc
    ELSE LET spdx_id == pkgs[i].SPDXID
             name == IF pkgs[i].name = Absent THEN spdx_id ELSE pkgs[i].name
         IN IF spdx_id # None /\ ~startswith(spdx_id, "SPDXRef-DocumentRoot")
            THEN get_packages_loop(pkgs, i + 1, DictSet(acc, spdx_id, name))
            ELSE get_packages_loop(pkgs, i + 1, acc)

get_packages(doc) == get_packages_loop(doc.packages, 1, EmptyDict)

-----------------------------------------------------------------------------
(* get_dependencies *)

RECURSIVE get_dependencies_rels(_, _, _)
get_dependencies_rels(rels, i, acc) ==
    IF i > Len(rels) THEN acc
    ELSE IF rels[i].relationshipType # "DEPENDENCY_OF"
         THEN get_dependencies_rels(rels, i + 1, acc)
         ELSE LET dependency == rels[i].spdxElementId
                  dependent == rels[i].relatedSpdxElement
                  d1 == Touch(acc, dependent, <<>>)
              IN get_dependencies_rels(rels, i + 1,
                     DictSet(d1, dependent, Append(d1.val[dependent], dependency)))

RECURSIVE get_dependencies_fill(_, _, _)
get_dependencies_fill(pkgKeys, i, acc) ==
    IF i > Len(pkgKeys) THEN acc
    ELSE get_dependencies_fill(pkgKeys, i + 1, Touch(acc, pkgKeys[i], <<>>))

get_dependencies(doc, pkgs) ==
    get_dependencies_fill(pkgs.keys, 1,
        get_dependencies_rels(doc.relationships, 1, EmptyDict))

-----------------------------------------------------------------------------
(* reverse_graph: rev is a defaultdict, so reading a missing key gives []. *)

RECURSIVE reverse_graph_deps(_, _, _, _)
reverse_graph_deps(pkg, deps, j, rev) ==
    IF j > Len(deps) THEN rev
    ELSE LET dep == deps[j]
             r1 == Touch(rev, dep, <<>>)
         IN reverse_graph_deps(pkg, deps, j + 1,
                DictSet(r1, dep, Append(r1.val[dep], pkg)))

RECURSIVE reverse_graph_loop(_, _, _)
reverse_graph_loop(graph, i, rev) ==
    IF i > Len(graph.keys) THEN rev
    ELSE LET pkg == graph.keys[i]
         IN reverse_graph_loop(graph, i + 1,
                reverse_graph_deps(pkg, graph.val[pkg], 1, rev))

(* faulty variant: the edges are copied, not reversed *)
reverse_graph_unreversed(graph) == graph

reverse_graph(graph) == reverse_graph_loop(graph, 1, EmptyDict)

(* rev_graph[pkg] of a defaultdict(list) *)
RevGet(rev_graph, pkg) ==
    IF pkg \in Keys(rev_graph) THEN rev_graph.val[pkg] ELSE <<>>

-----------------------------------------------------------------------------
(* push_dfs: st = [color, stack, err]; color is a plain dict, so color[dep] *)
(* of an id that is no key of the graph raises KeyError.                   *)

RECURSIVE push_dfs(_, _, _)
RECURSIVE push_dfs_deps(_, _, _, _)

push_dfs(graph, st, pkg) ==
    LET st1 == [st EXCEPT !.color[pkg] = "gray"]
        st2 == push_dfs_deps(graph, st1, graph.val[pkg], 1)
    IN IF st2.err # "none" THEN st2
       ELSE [st2 EXCEPT !.color[pkg] = "black", !.stack = Append(@, pkg)]

push_dfs_deps(graph, st, deps, j) ==
    IF j > Len(deps) \/ st.err # "none" THEN st
    ELSE LET dep == deps[j]
         IN IF dep \notin DOMAIN st.color THEN [st EXCEPT !.err = "KeyError"]
            ELSE IF st.color[dep] = "white"
                 THEN push_dfs_deps(graph, push_dfs(graph, st, dep), deps, j + 1)
                 ELSE push_dfs_deps(graph, st, deps, j + 1)

(* label_dfs: st = [color, scc_pkgs, err] *)

RECURSIVE label_dfs(_, _, _)
RECURSIVE label_dfs_deps(_, _, _, _)

label_dfs(rev_graph, st, pkg) ==
    LET st1 == [st EXCEPT !.color[pkg] = "gray", !.scc_pkgs = Append(@, pkg)]
        st2 == label_dfs_deps(rev_graph, st1, RevGet(rev_graph, pkg), 1)
    IN IF st2.err # "none" THEN st2
       ELSE [st2 EXCEPT !.color[pkg] = "black"]

label_dfs_deps(rev_graph, st, deps, j) ==
    IF j > Len(deps) \/ st.err # "none" THEN st
    ELSE LET dep == deps[j]
         IN IF dep \notin DOMAIN st.color THEN [st EXCEPT !.err = "KeyError"]
            ELSE IF st.color[dep] = "white"
                 THEN label_dfs_deps(rev_graph, label_dfs(rev_graph, st, dep),
                                     deps, j + 1)
                 ELSE label_dfs_deps(rev_graph, st, deps, j + 1)

-----------------------------------------------------------------------------
(* get_sccs_kosaraju: the result is [sccs, err].                           *)

AllWhite(pkgs) == [pkg \in Range(pkgs) |-> "white"]

RECURSIVE pass1(_, _, _, _)
pass1(graph, pkgs, i, st) ==
    IF i > Len(pkgs) \/ st.err # "none" THEN st
    ELSE IF st.color[pkgs[i]] = "white"
         THEN pass1(graph, pkgs, i + 1, push_dfs(graph, st, pkgs[i]))
         ELSE pass1(graph, pkgs, i + 1, st)

(* the finishing stack pass 1 leaves *)
finishing_stack(graph) ==
    pass1(graph, graph.keys, 1,
          [color |-> AllWhite(graph.keys), stack |-> <<>>, err |-> "none"]).stack

(* stack.pop() takes the last element *)
RECURSIVE pass2(_, _, _, _)
pass2(rev_graph, stack, color, acc) ==
    IF stack = <<>> THEN [sccs |-> acc, err |-> "none"]
    ELSE LET pkg == stack[Len(stack)]
             rest == SubSeq(stack, 1, Len(stack) - 1)
         IN IF color[pkg] = "white"
            THEN LET st == label_dfs(rev_graph,
                               [color |-> color, scc_pkgs |-> <<>>, err |-> "none"],
                               pkg)
                 IN IF st.err # "none" THEN [sccs |-> acc, err |-> st.err]
                    ELSE pass2(rev_graph, rest, st.color, Append(acc, st.scc_pkgs))
            ELSE pass2(rev_graph, rest, color, acc)

(* faulty variant: the colours are not reset before pass 2 *)
get_sccs_kosaraju_no_reset(graph) ==
    LET rev_graph == reverse_graph(graph)
        pkgs == graph.keys
        st == pass1(graph, pkgs, 1,
                    [color |-> AllWhite(pkgs), stack |-> <<>>, err |-> "none"])
    IN IF st.err # "none" THEN [sccs |-> <<>>, err |-> st.err]
       ELSE pass2(rev_graph, st.stack, st.color, <<>>)

(* faulty variant: the two passes swap graphs, pass 1 over the reverse graph and  *)
(* pass 2 over the original                                               *)
get_sccs_kosaraju_swapped(graph) ==
    LET rev_graph == reverse_graph(graph)
        pkgs == graph.keys
        rev_all == [keys |-> pkgs,
                    val |-> [k \in Keys(graph) |-> RevGet(rev_graph, k)]]
        st == pass1(rev_all, pkgs, 1,
                    [color |-> AllWhite(pkgs), stack |-> <<>>, err |-> "none"])
    IN IF st.err # "none" THEN [sccs |-> <<>>, err |-> st.err]
       ELSE pass2(graph, st.stack, AllWhite(pkgs), <<>>)

get_sccs_kosaraju(graph) ==
    LET rev_graph == reverse_graph(graph)
        pkgs == graph.keys
        st == pass1(graph, pkgs, 1,
                    [color |-> AllWhite(pkgs), stack |-> <<>>, err |-> "none"])
    IN IF st.err # "none" THEN [sccs |-> <<>>, err |-> st.err]
       ELSE pass2(rev_graph, st.stack, AllWhite(pkgs), <<>>)

-----------------------------------------------------------------------------
(* get_cyclic_sccs, given the list get_sccs_kosaraju returned              *)

RECURSIVE classify(_, _, _, _)
classify(graph, groups, i, acc) ==
    IF i > Len(groups) THEN acc
    ELSE LET pkgs == groups[i]
         IN IF Len(pkgs) >= 2 THEN classify(graph, groups, i + 1, Append(acc, pkgs))
            ELSE IF Len(pkgs) = 1 /\ pkgs[1] \in Range(graph.val[pkgs[1]])
                 THEN classify(graph, groups, i + 1, Append(acc, pkgs))
                 ELSE classify(graph, groups, i + 1, acc)

(* faulty variant: a group of one member is never looked at *)
get_cyclic_sccs_no_self_edge(graph, groups) ==
    SelectSeq(groups, LAMBDA pkgs : Len(pkgs) >= 2)

get_cyclic_sccs(graph, groups) == classify(graph, groups, 1, <<>>)

-----------------------------------------------------------------------------
(* get_duplicates: duplicates is a defaultdict(set), touched only inside    *)
(* the if.                                                                 *)

RECURSIVE get_duplicates_loop(_, _, _, _)
get_duplicates_loop(pkgs, i, j, acc) ==
    IF i > Len(pkgs.keys) THEN acc
    ELSE IF j > Len(pkgs.keys) THEN get_duplicates_loop(pkgs, i + 1, 1, acc)
    ELSE LET spdx_id == pkgs.keys[i]
             name == pkgs.val[spdx_id]
             spdx_id2 == pkgs.keys[j]
             name2 == pkgs.val[spdx_id2]
         IN IF name = name2 /\ spdx_id # spdx_id2
            THEN LET d1 == Touch(acc, name, {})
                     s1 == IF Cardinality(d1.val[name]) = 0
                           THEN {spdx_id} ELSE d1.val[name]
                 IN get_duplicates_loop(pkgs, i, j + 1,
                        DictSet(d1, name, s1 \cup {spdx_id2}))
            ELSE get_duplicates_loop(pkgs, i, j + 1, acc)

(* faulty variant: an id is compared with itself too *)
RECURSIVE get_duplicates_loop_self(_, _, _, _)
get_duplicates_loop_self(pkgs, i, j, acc) ==
    IF i > Len(pkgs.keys) THEN acc
    ELSE IF j > Len(pkgs.keys) THEN get_duplicates_loop_self(pkgs, i + 1, 1, acc)
    ELSE LET spdx_id == pkgs.keys[i]
             name == pkgs.val[spdx_id]
             spdx_id2 == pkgs.keys[j]
             name2 == pkgs.val[spdx_id2]
         IN IF name = name2
            THEN LET d1 == Touch(acc, name, {})
                     s1 == IF Cardinality(d1.val[name]) = 0
                           THEN {spdx_id} ELSE d1.val[name]
                 IN get_duplicates_loop_self(pkgs, i, j + 1,
                        DictSet(d1, name, s1 \cup {spdx_id2}))
            ELSE get_duplicates_loop_self(pkgs, i, j + 1, acc)

get_duplicates_self(pkgs) == get_duplicates_loop_self(pkgs, 1, 1, EmptyDict)

get_duplicates(pkgs) == get_duplicates_loop(pkgs, 1, 1, EmptyDict)

-----------------------------------------------------------------------------
(* get_dependency_frequencies: st = [freq, deps, err].  Both dicts are      *)
(* defaultdicts: len(dependencies[dep_id]) of an id that is no key inserts  *)
(* it while dependencies.values() is being iterated, and the iterator's    *)
(* next step raises RuntimeError (dictionary changed size).                *)

RECURSIVE frequencies_deps(_, _, _)
frequencies_deps(st, deps, j) ==
    IF j > Len(deps) THEN st
    ELSE LET dep_id == deps[j]
             f1 == Touch(st.freq, dep_id, <<0, 0>>)
             dependent == f1.val[dep_id][1]
             d1 == Touch(st.deps, dep_id, <<>>)
         IN frequencies_deps(
                [st EXCEPT !.freq = DictSet(f1, dep_id,
                                        <<dependent + 1, Len(d1.val[dep_id])>>),
                           !.deps = d1],
                deps, j + 1)

RECURSIVE frequencies_values(_, _, _)
frequencies_values(st, i, size) ==
    IF Len(st.deps.keys) # size THEN [st EXCEPT !.err = "RuntimeError"]
    ELSE IF i > size THEN st
    ELSE frequencies_values(
             frequencies_deps(st, st.deps.val[st.deps.keys[i]], 1), i + 1, size)

RECURSIVE frequencies_items(_, _)
frequencies_items(st, i) ==
    IF i > Len(st.deps.keys) THEN st
    ELSE LET spdx_id == st.deps.keys[i]
         IN IF spdx_id \notin Keys(st.freq)
            THEN frequencies_items(
                     [st EXCEPT !.freq = DictSet(@, spdx_id,
                                             <<0, Len(st.deps.val[spdx_id])>>)],
                     i + 1)
            ELSE frequencies_items(st, i + 1)

(* faulty variant: an id nothing depends on gets (0, 0) *)
RECURSIVE frequencies_items_zero(_, _)
frequencies_items_zero(st, i) ==
    IF i > Len(st.deps.keys) THEN st
    ELSE LET spdx_id == st.deps.keys[i]
         IN IF spdx_id \notin Keys(st.freq)
            THEN frequencies_items_zero(
                     [st EXCEPT !.freq = DictSet(@, spdx_id, <<0, 0>>)], i + 1)
            ELSE frequencies_items_zero(st, i + 1)

get_dependency_frequencies_zero(deps) ==
    LET st == frequencies_values(
                  [freq |-> EmptyDict, deps |-> deps, err |-> "none"],
                  1, Len(deps.keys))
    IN IF st.err # "none" THEN st ELSE frequencies_items_zero(st, 1)

get_dependency_frequencies(deps) ==
    LET st == frequencies_values(
                  [freq |-> EmptyDict, deps |-> deps, err |-> "none"],
                  1, Len(deps.keys))
    IN IF st.err # "none" THEN st ELSE frequencies_items(st, 1)

-----------------------------------------------------------------------------
(* sorted(): of identifiers by str order, and of the frequency items by    *)
(* their (dependant, dependencies) pair, descending and stable.            *)

RECURSIVE InsertId(_, _)
InsertId(sorted, id) ==
    IF sorted = <<>> THEN <<id>>
    ELSE IF Rank(id) < Rank(Head(sorted)) THEN <<id>> \o sorted
    ELSE <<Head(sorted)>> \o InsertId(Tail(sorted), id)

RECURSIVE SortedIds(_)
SortedIds(ids) ==
    IF ids = <<>> THEN <<>>
    ELSE InsertId(SortedIds(SubSeq(ids, 1, Len(ids) - 1)), ids[Len(ids)])

RECURSIVE SortedIdSet(_)
SortedIdSet(S) ==
    IF S = {} THEN <<>>
    ELSE LET m == CHOOSE x \in S : \A y \in S : Rank(x) <= Rank(y)
         IN <<m>> \o SortedIdSet(S \ {m})

PairLess(a, b) == a[1] < b[1] \/ (a[1] = b[1] /\ a[2] < b[2])

RECURSIVE InsertItem(_, _, _)
InsertItem(freq, sorted, id) ==
    IF sorted = <<>> THEN <<id>>
    ELSE IF PairLess(freq.val[Head(sorted)], freq.val[id]) THEN <<id>> \o sorted
    ELSE <<Head(sorted)>> \o InsertItem(freq, Tail(sorted), id)

RECURSIVE SortedItems(_, _)
SortedItems(freq, n) ==
    IF n = 0 THEN <<>>
    ELSE InsertItem(freq, SortedItems(freq, n - 1), freq.keys[n])

-----------------------------------------------------------------------------
(* The print_* functions: the result is [out, err], out the lines written  *)
(* before a KeyError (if any) left the function.                           *)

Line(head, items) == [head |-> head, items |-> items]

NamesOf(pkgs, ids) == [k \in 1..Len(ids) |-> pkgs.val[ids[k]]]

RECURSIVE print_dependencies_loop(_, _, _, _)
print_dependencies_loop(deps, pkgs, i, out) ==
    IF i > Len(pkgs.keys) THEN [out |-> out, err |-> "none"]
    ELSE LET spdx_id == pkgs.keys[i]
             ids == SortedIds(IF spdx_id \in Keys(deps) THEN deps.val[spdx_id]
                              ELSE <<>>)
         IN IF Range(ids) \subseteq Keys(pkgs)
            THEN print_dependencies_loop(deps, pkgs, i + 1,
                     Append(out, Line(pkgs.val[spdx_id], NamesOf(pkgs, ids))))
            ELSE [out |-> out, err |-> "KeyError"]

print_dependencies(deps, pkgs) ==
    print_dependencies_loop(deps, pkgs, 1, <<Line("Dependencies:", <<>>)>>)

print_duplicates(dups) ==
    [out |-> <<Line("Duplicate package names:", <<>>)>> \o
             [k \in 1..Len(dups.keys) |->
                 Line(dups.keys[k], SortedIdSet(dups.val[dups.keys[k]]))],
     err |-> "none"]

RECURSIVE print_frequencies_loop(_, _, _, _, _)
print_frequencies_loop(freq, pkgs, order, i, out) ==
    IF i > Len(order) THEN [out |-> out, err |-> "none"]
    ELSE IF order[i] \in Keys(pkgs)
         THEN print_frequencies_loop(freq, pkgs, order, i + 1,
                  Append(out, Line(pkgs.val[order[i]], freq.val[order[i]])))
         ELSE [out |-> out, err |-> "KeyError"]

print_frequencies(freq, pkgs) ==
    print_frequencies_loop(freq, pkgs, SortedItems(freq, Len(freq.keys)), 1,
                           <<Line("Dependency frequencies:", <<>>)>>)

RECURSIVE print_cycles_loop(_, _, _, _)
print_cycles_loop(cyc, pkgs, i, out) ==
    IF i > Len(cyc) THEN [out |-> out, err |-> "none"]
    ELSE LET ids == SortedIds(cyc[i])
         IN IF Range(ids) \subseteq Keys(pkgs)
            THEN print_cycles_loop(cyc, pkgs, i + 1,
                     Append(out, Line(i, NamesOf(pkgs, ids))))
            ELSE [out |-> out, err |-> "KeyError"]

print_cycles(cyc, pkgs) ==
    print_cycles_loop(cyc, pkgs, 1, <<Line("Cycles:", <<>>)>>)

-----------------------------------------------------------------------------
(* draw_package: st = [visited, out, err]; out is the statements written   *)
(* to f so far.                                                            *)

Label(id, label, color) ==
    [kind |-> "label", id |-> id, label |-> label, fillcolor |-> color, to |-> ""]

Edge(id, dep_id) ==
    [kind |-> "edge", id |-> id, label |-> "", fillcolor |-> "", to |-> dep_id]

Brace(text) ==
    [kind |-> text, id |-> "", label |-> "", fillcolor |-> "", to |-> ""]

RECURSIVE draw_package(_, _, _, _, _)
RECURSIVE draw_package_deps(_, _, _, _, _, _, _)

draw_package(spdx_id, deps, pkgs, to_highlight, st) ==
    LET st1 == [st EXCEPT !.visited = @ \cup {spdx_id}]
        color == IF spdx_id \in Range(to_highlight) THEN "cyan" ELSE "white"
    IN IF spdx_id \notin Keys(pkgs) THEN [st1 EXCEPT !.err = "KeyError"]
       ELSE draw_package_deps(spdx_id, deps, pkgs, to_highlight,
                [st1 EXCEPT !.out = Append(@, Label(spdx_id, pkgs.val[spdx_id], color))],
                IF spdx_id \in Keys(deps) THEN deps.val[spdx_id] ELSE <<>>, 1)

draw_package_deps(spdx_id, deps, pkgs, to_highlight, st, own, j) ==
    IF j > Len(own) \/ st.err # "none" THEN st
    ELSE LET dep_id == own[j]
             st1 == [st EXCEPT !.out = Append(@, Edge(spdx_id, dep_id))]
         IN IF dep_id \notin st1.visited
            THEN draw_package_deps(spdx_id, deps, pkgs, to_highlight,
                     draw_package(dep_id, deps, pkgs, to_highlight, st1), own, j + 1)
            ELSE draw_package_deps(spdx_id, deps, pkgs, to_highlight, st1, own, j + 1)

(* the with block: "}" is written only when no exception left it           *)
Close(st) ==
    [out |-> IF st.err = "none" THEN Append(st.out, Brace("}")) ELSE st.out,
     err |-> st.err]

(* faulty variant: only the seed is highlighted *)
draw_dependencies_package_seed_only(deps, pkgs, pkg_spdx_id, to_highlight) ==
    Close(draw_package(pkg_spdx_id, deps, pkgs, <<pkg_spdx_id>>,
              [visited |-> {}, out |-> <<Brace("digraph Dependencies {")>>,
               err |-> "none"]))

draw_dependencies_package(deps, pkgs, pkg_spdx_id, to_highlight) ==
    Close(draw_package(pkg_spdx_id, deps, pkgs, to_highlight,
              [visited |-> {}, out |-> <<Brace("digraph Dependencies {")>>,
               err |-> "none"]))

RECURSIVE draw_dependencies_all_loop(_, _, _, _)
draw_dependencies_all_loop(deps, pkgs, i, st) ==
    IF i > Len(pkgs.keys) \/ st.err # "none" THEN st
    ELSE IF pkgs.keys[i] \notin st.visited
         THEN draw_dependencies_all_loop(deps, pkgs, i + 1,
                  draw_package(pkgs.keys[i], deps, pkgs, <<>>, st))
         ELSE draw_dependencies_all_loop(deps, pkgs, i + 1, st)

(* faulty variant: every component is a seed, visited or not *)
RECURSIVE draw_dependencies_all_loop_revisit(_, _, _, _)
draw_dependencies_all_loop_revisit(deps, pkgs, i, st) ==
    IF i > Len(pkgs.keys) \/ st.err # "none" THEN st
    ELSE draw_dependencies_all_loop_revisit(deps, pkgs, i + 1,
             draw_package(pkgs.keys[i], deps, pkgs, <<>>, st))

draw_dependencies_all_revisit(deps, pkgs) ==
    Close(draw_dependencies_all_loop_revisit(deps, pkgs, 1,
              [visited |-> {}, out |-> <<Brace("digraph Dependencies {")>>,
               err |-> "none"]))

draw_dependencies_all(deps, pkgs) ==
    Close(draw_dependencies_all_loop(deps, pkgs, 1,
              [visited |-> {}, out |-> <<Brace("digraph Dependencies {")>>,
               err |-> "none"]))

FileName(stem, index, name) == [stem |-> stem, index |-> index, name |-> name]

(* draw_cycles: st = [files, err]; enumerate() counts from 0 and the name  *)
(* uses i + 1, which is the 1-based position k here.                       *)
RECURSIVE draw_cycles_loop(_, _, _, _, _)
draw_cycles_loop(deps, pkgs, cyc, k, st) ==
    IF k > Len(cyc) \/ st.err # "none" THEN st
    ELSE LET c == cyc[k]
             pkg_spdx_id == c[1]
         IN IF pkg_spdx_id \notin Keys(pkgs) THEN [st EXCEPT !.err = "KeyError"]
            ELSE LET f == draw_dependencies_package(deps, pkgs, pkg_spdx_id, c)
                 IN draw_cycles_loop(deps, pkgs, cyc, k + 1,
                        [files |-> DictSet(st.files,
                                       FileName("cycle", k, pkgs.val[pkg_spdx_id]),
                                       f.out),
                         err |-> f.err])

draw_cycles(deps, pkgs, cyc, fs) ==
    draw_cycles_loop(deps, pkgs, cyc, 1, [files |-> fs, err |-> "none"])

-----------------------------------------------------------------------------
(* main *)

Init ==
    /\ sbom \in Documents
    /\ pc = "get_packages"
    /\ error = "none"
    /\ error = "none"
    /\ packages = EmptyDict
    /\ dependencies = EmptyDict
    /\ duplicates = EmptyDict
    /\ frequencies = EmptyDict
    /\ sccs = <<>>
    /\ cycles = <<>>
    /\ stdout = <<>>
    /\ files = EmptyDict

(* The calls of main() in order; pc names the call to make next, or, when *)
(* error is set, the call that raised.                                     *)
Calls == <<"get_packages", "get_dependencies", "get_duplicates",
           "get_dependency_frequencies", "get_cyclic_sccs", "print_dependencies",
           "print_duplicates", "print_frequencies", "print_cycles",
           "draw_dependencies_all", "draw_cycles", "done">>

CallIndex(call) == CHOOSE i \in 1..Len(Calls) : Calls[i] = call

Returned(call) == CallIndex(pc) > CallIndex(call)

Raised(call) == pc = call /\ error # "none"

(* A call of main(): an exception ends the run at that call, otherwise    *)
(* control moves to the next call.                                         *)
Raise(err, next) ==
    /\ pc' = IF err # "none" THEN pc ELSE next
    /\ error' = err

GetPackages ==
    /\ pc = "get_packages"
    /\ error = "none"
    /\ packages' = get_packages(sbom)
    /\ pc' = "get_dependencies"
    /\ UNCHANGED <<sbom, error, dependencies, duplicates, frequencies, sccs,
                   cycles, stdout, files>>

GetDependencies ==
    /\ pc = "get_dependencies"
    /\ error = "none"
    /\ dependencies' = get_dependencies(sbom, packages)
    /\ pc' = "get_duplicates"
    /\ UNCHANGED <<sbom, error, packages, duplicates, frequencies, sccs,
                   cycles, stdout, files>>

GetDuplicates ==
    /\ pc = "get_duplicates"
    /\ error = "none"
    /\ duplicates' = get_duplicates(packages)
    /\ pc' = "get_dependency_frequencies"
    /\ UNCHANGED <<sbom, error, packages, dependencies, frequencies, sccs,
                   cycles, stdout, files>>

GetDependencyFrequencies ==
    /\ pc = "get_dependency_frequencies"
    /\ error = "none"
    /\ LET st == get_dependency_frequencies(dependencies)
       IN /\ dependencies' = st.deps
          /\ frequencies' = IF st.err # "none" THEN frequencies ELSE st.freq
          /\ Raise(st.err, "get_cyclic_sccs")
    /\ UNCHANGED <<sbom, packages, duplicates, sccs, cycles, stdout, files>>

GetCyclicSccs ==
    /\ pc = "get_cyclic_sccs"
    /\ error = "none"
    /\ LET r == get_sccs_kosaraju(dependencies)
       IN /\ sccs' = IF r.err # "none" THEN sccs ELSE r.sccs
          /\ cycles' = IF r.err # "none" THEN cycles
                       ELSE get_cyclic_sccs(dependencies, r.sccs)
          /\ Raise(r.err, "print_dependencies")
    /\ UNCHANGED <<sbom, packages, dependencies, duplicates, frequencies,
                   stdout, files>>

PrintDependencies ==
    /\ pc = "print_dependencies"
    /\ error = "none"
    /\ LET r == print_dependencies(dependencies, packages)
       IN stdout' = stdout \o r.out /\ Raise(r.err, "print_duplicates")
    /\ UNCHANGED <<sbom, packages, dependencies, duplicates, frequencies, sccs,
                   cycles, files>>

PrintDuplicates ==
    /\ pc = "print_duplicates"
    /\ error = "none"
    /\ LET r == print_duplicates(duplicates)
       IN stdout' = stdout \o r.out /\ Raise(r.err, "print_frequencies")
    /\ UNCHANGED <<sbom, packages, dependencies, duplicates, frequencies, sccs,
                   cycles, files>>

PrintFrequencies ==
    /\ pc = "print_frequencies"
    /\ error = "none"
    /\ LET r == print_frequencies(frequencies, packages)
       IN stdout' = stdout \o r.out /\ Raise(r.err, "print_cycles")
    /\ UNCHANGED <<sbom, packages, dependencies, duplicates, frequencies, sccs,
                   cycles, files>>

PrintCycles ==
    /\ pc = "print_cycles"
    /\ error = "none"
    /\ LET r == print_cycles(cycles, packages)
       IN stdout' = stdout \o r.out /\ Raise(r.err, "draw_dependencies_all")
    /\ UNCHANGED <<sbom, packages, dependencies, duplicates, frequencies, sccs,
                   cycles, files>>

DrawDependenciesAll ==
    /\ pc = "draw_dependencies_all"
    /\ error = "none"
    /\ LET f == draw_dependencies_all(dependencies, packages)
       IN /\ files' = DictSet(files, FileName("sbom", 0, ""), f.out)
          /\ Raise(f.err, "draw_cycles")
    /\ UNCHANGED <<sbom, packages, dependencies, duplicates, frequencies, sccs,
                   cycles, stdout>>

DrawCycles ==
    /\ pc = "draw_cycles"
    /\ error = "none"
    /\ LET st == draw_cycles(dependencies, packages, cycles, files)
       IN files' = st.files /\ Raise(st.err, "done")
    /\ UNCHANGED <<sbom, packages, dependencies, duplicates, frequencies, sccs,
                   cycles, stdout>>

Next ==
    \/ GetPackages
    \/ GetDependencies
    \/ GetDuplicates
    \/ GetDependencyFrequencies
    \/ GetCyclicSccs
    \/ PrintDependencies
    \/ PrintDuplicates
    \/ PrintFrequencies
    \/ PrintCycles
    \/ DrawDependenciesAll
    \/ DrawCycles

Spec == Init /\ [][Next]_vars

-----------------------------------------------------------------------------
(* Graph notions the properties are stated with, defined on sets and       *)
(* independently of the traversals above.                                  *)

Succ(graph, x) == IF x \in Keys(graph) THEN Range(graph.val[x]) ELSE {}

RECURSIVE Closure(_, _)
Closure(graph, S) ==
    LET T == S \cup UNION {Succ(graph, y) : y \in S}
    IN IF T = S THEN S ELSE Closure(graph, T)

(* the ids x reaches by a path of length zero or more *)
Reach(graph, x) == Closure(graph, {x})

MutuallyReachable(graph, x, y) == y \in Reach(graph, x) /\ x \in Reach(graph, y)

SccOf(graph, x) == {y \in Keys(graph) : MutuallyReachable(graph, x, y)}

Total(graph) == \A k \in Keys(graph) : Range(graph.val[k]) \subseteq Keys(graph)

SelfEdge(graph, x) == x \in Succ(graph, x)

(* the places <<i, j>> of id in a list of groups *)
Positions(groups, id) ==
    UNION {{<<i, j>> : j \in {j \in 1..Len(groups[i]) : groups[i][j] = id}} :
           i \in 1..Len(groups)}

Members(groups) == UNION {Range(groups[i]) : i \in 1..Len(groups)}

(* how many entries of the adjacency lists are id, parallel edges counted  *)
Occurrences(graph, id) ==
    Cardinality(UNION {{<<k, j>> : j \in {j \in 1..Len(graph.val[k]) :
                                            graph.val[k][j] = id}} :
                       k \in Keys(graph)})

ListsContaining(graph, id) ==
    Cardinality({k \in Keys(graph) : id \in Range(graph.val[k])})

IdsNamed(name) == {id \in Keys(packages) : packages.val[id] = name}

(* the statements of one written file *)
Labels(out) == {i \in 1..Len(out) : out[i].kind = "label"}

LabelsOf(out, id) == {i \in Labels(out) : out[i].id = id}

EdgesOf(out, id, dep_id) ==
    {i \in 1..Len(out) : out[i].kind = "edge" /\ out[i].id = id /\ out[i].to = dep_id}

EntriesOf(graph, id, dep_id) ==
    {j \in 1..Len(graph.val[id]) : graph.val[id][j] = dep_id}

(* out draws exactly the ids of S: one label each, one edge per entry of   *)
(* their adjacency lists, and nothing else                                 *)
Draws(out, graph, S) ==
    /\ \A id \in S : Cardinality(LabelsOf(out, id)) = 1
    /\ \A i \in Labels(out) : out[i].id \in S
    /\ \A i \in 1..Len(out) : out[i].kind = "edge" => out[i].id \in S
    /\ \A id \in S : \A dep_id \in Keys(graph) :
           Cardinality(EdgesOf(out, id, dep_id)) =
           Cardinality(EntriesOf(graph, id, dep_id))

FirstSorted(c) == SortedIds(c)[1]

-----------------------------------------------------------------------------
(* C1 as stated: on a total graph the groups get_sccs_kosaraju returns     *)
(* partition the component set of get_packages: every component id is in   *)
(* exactly one place, and no group holds an id outside the component set.  *)
C1_PartitionOfComponents ==
    (Returned("get_cyclic_sccs") /\ Total(dependencies)) =>
        /\ \A id \in Keys(packages) : Cardinality(Positions(sccs, id)) = 1
        /\ Members(sccs) \subseteq Keys(packages)

(* C1 amended: on a total graph the groups get_sccs_kosaraju returns       *)
(* partition the key set of the graph (every key in exactly one place, no  *)
(* other id in any group); the key set holds every component id and also   *)
(* every id a DEPENDENCY_OF record names as the dependent.                 *)
C1_PartitionOfKeys ==
    (Returned("get_cyclic_sccs") /\ Total(dependencies)) =>
        /\ \A id \in Keys(dependencies) : Cardinality(Positions(sccs, id)) = 1
        /\ Members(sccs) \subseteq Keys(dependencies)
        /\ Keys(packages) \subseteq Keys(dependencies)

(* C1 witness: a total graph came back as two or more groups, one of them *)
(* with two or more members, and some id has two or more dependencies.   *)
C1_Witness ==
    /\ Returned("get_cyclic_sccs")
    /\ Total(dependencies)
    /\ Len(sccs) >= 2
    /\ \E i \in 1..Len(sccs) : Len(sccs[i]) >= 2
    /\ \E k \in Keys(dependencies) : Len(dependencies.val[k]) >= 2

(* C2: on a total graph two ids are in the same returned group if and only *)
(* if each reaches the other through dependency edges (an id reaches       *)
(* itself), so every group is exactly one strongly connected component.    *)
C2_GroupsAreSccs ==
    (Returned("get_cyclic_sccs") /\ Total(dependencies)) =>
        \A x, y \in Keys(dependencies) :
            (\E i \in 1..Len(sccs) : {x, y} \subseteq Range(sccs[i]))
            <=> MutuallyReachable(dependencies, x, y)

(* C2 witness: two distinct ids reach each other, and one of them reaches *)
(* a third id that does not reach back.                                   *)
C2_Witness ==
    /\ Returned("get_cyclic_sccs")
    /\ Total(dependencies)
    /\ \E x, y \in Keys(dependencies) :
           /\ x # y
           /\ MutuallyReachable(dependencies, x, y)
           /\ \E z \in Keys(dependencies) :
                  /\ z \in Reach(dependencies, x)
                  /\ x \notin Reach(dependencies, z)

(* C3 as stated: a component with a self-edge is always reported as a      *)
(* size-1 cycle; a size-1 SCC without a self-edge is never reported; every *)
(* SCC of size 2 or more is reported.                                      *)
C3_SelfEdgeIsSingletonCycle ==
    (Returned("get_cyclic_sccs") /\ Total(dependencies)) =>
        \A x \in Keys(dependencies) :
            LET S == SccOf(dependencies, x)
            IN /\ SelfEdge(dependencies, x) => <<x>> \in Range(cycles)
               /\ (S = {x} /\ ~SelfEdge(dependencies, x)) => x \notin Members(cycles)
               /\ Cardinality(S) >= 2 => \E k \in 1..Len(cycles) : Range(cycles[k]) = S

(* C3 amended: a component with a self-edge is always a member of a        *)
(* reported cycle, which is the size-1 cycle of that component when its    *)
(* SCC has no other member and its whole SCC otherwise; a size-1 SCC       *)
(* without a self-edge is never reported; every SCC of size 2 or more is   *)
(* reported.                                                               *)
C3_Classification ==
    (Returned("get_cyclic_sccs") /\ Total(dependencies)) =>
        \A x \in Keys(dependencies) :
            LET S == SccOf(dependencies, x)
            IN /\ SelfEdge(dependencies, x) =>
                      \E k \in 1..Len(cycles) : x \in Range(cycles[k]) /\ Range(cycles[k]) = S
               /\ (S = {x} /\ SelfEdge(dependencies, x)) => <<x>> \in Range(cycles)
               /\ (S = {x} /\ ~SelfEdge(dependencies, x)) => x \notin Members(cycles)
               /\ Cardinality(S) >= 2 => \E k \in 1..Len(cycles) : Range(cycles[k]) = S

(* C3 witness: an id with a self-edge lies in an SCC of two or more, next *)
(* to a size-1 SCC without a self-edge.                                   *)
C3_Witness ==
    /\ Returned("get_cyclic_sccs")
    /\ Total(dependencies)
    /\ \E x, y \in Keys(dependencies) :
           /\ SelfEdge(dependencies, x)
           /\ Cardinality(SccOf(dependencies, x)) >= 2
           /\ SccOf(dependencies, y) = {y}
           /\ ~SelfEdge(dependencies, y)

(* C4 as stated: for every id x of the result, dependent_count(x) is the   *)
(* number of adjacency lists that contain x and dependency_count(x) is the *)
(* length of x's own adjacency list.                                       *)
C4_DependentsAreLists ==
    Returned("get_dependency_frequencies") =>
        \A x \in Keys(frequencies) :
            /\ frequencies.val[x][1] = ListsContaining(dependencies, x)
            /\ frequencies.val[x][2] = Len(dependencies.val[x])

(* C4 amended: for every id x of the result, dependent_count(x) is the     *)
(* number of entries equal to x over all adjacency lists (each parallel    *)
(* edge counted), and dependency_count(x) is the length of x's own         *)
(* adjacency list.                                                         *)
C4_DegreeConsistency ==
    Returned("get_dependency_frequencies") =>
        \A x \in Keys(frequencies) :
            /\ x \in Keys(dependencies)
            /\ frequencies.val[x][1] = Occurrences(dependencies, x)
            /\ frequencies.val[x][2] = Len(dependencies.val[x])

(* C4 witness: parallel edges; x is counted twice though one list holds   *)
(* it, and y has no dependents and two dependencies.                      *)
C4_Witness ==
    /\ Returned("get_dependency_frequencies")
    /\ \E x, y \in Keys(frequencies) :
           /\ frequencies.val[x][1] = 2
           /\ ListsContaining(dependencies, x) = 1
           /\ frequencies.val[y] = <<0, 2>>

(* C5: get_duplicates reports a name if and only if two or more component  *)
(* ids carry it, and reports for it exactly the set of ids carrying it.    *)
C5_Duplicates ==
    Returned("get_duplicates") =>
        /\ \A id \in Keys(packages) :
               LET name == packages.val[id]
               IN name \in Keys(duplicates) <=> Cardinality(IdsNamed(name)) >= 2
        /\ \A name \in Keys(duplicates) :
               /\ duplicates.val[name] = IdsNamed(name)
               /\ Cardinality(duplicates.val[name]) >= 2

(* C5 witness: a reported name, and a component outside its set.          *)
C5_Witness ==
    /\ Returned("get_duplicates")
    /\ \E name \in Keys(duplicates) :
           \E id \in Keys(packages) : id \notin duplicates.val[name]

(* C6: an identifier with the prefix SPDXRef-DocumentRoot is never a key   *)
(* of the component set, a key of the Dependency Graph or a member of an   *)
(* SCC, whatever the relationship records name.                            *)
C6_NoDocumentRootNode ==
    \A id \in Ids :
        startswith(id, "SPDXRef-DocumentRoot") =>
            /\ id \notin Keys(packages)
            /\ id \notin Keys(dependencies)
            /\ id \notin Members(sccs)

(* C7: get_dependency_frequencies returns, and its result has a Degree     *)
(* Record for every key of the graph and every id of an adjacency list,    *)
(* an id that get_dependencies left without a key included.                *)
C7_RecordForEveryId ==
    /\ ~Raised("get_dependency_frequencies")
    /\ Returned("get_dependency_frequencies") =>
           \A k \in Keys(dependencies) :
               {k} \cup Range(dependencies.val[k]) \subseteq Keys(frequencies)

(* C8: in full-graph mode on a total graph whose ids are all components,   *)
(* the traversal ends with every component visited once: one label         *)
(* statement per component id and one edge statement per entry of every    *)
(* component's adjacency list, between the opening and the closing line.   *)
C8_FullGraph ==
    (/\ Returned("draw_dependencies_all")
     /\ Total(dependencies)
     /\ Keys(dependencies) = Keys(packages)) =>
        LET name == FileName("sbom", 0, "")
        IN /\ name \in Keys(files)
           /\ Draws(files.val[name], dependencies, Keys(packages))
           /\ files.val[name][Len(files.val[name])].kind = "}"

(* C8 witness: the full graph was drawn for a graph with a cycle of two    *)
(* components and a parallel edge.                                        *)
C8_Witness ==
    /\ Returned("draw_dependencies_all")
    /\ Total(dependencies)
    /\ Keys(dependencies) = Keys(packages)
    /\ \E x, y \in Keys(packages) :
           /\ x # y
           /\ MutuallyReachable(dependencies, x, y)
           /\ Cardinality(EntriesOf(dependencies, x, y)) >= 2

(* C9: for each cycle get_cyclic_sccs returned, draw_cycles writes one     *)
(* file holding the subgraph reachable from the cycle's first member in    *)
(* sorted order: one label statement for each id reachable from it, one    *)
(* edge statement per adjacency entry of those ids, and a label is filled  *)
(* cyan if and only if its id is a member of the cycle.                    *)
C9_CycleFiles ==
    Returned("draw_cycles") =>
        /\ Cardinality({f \in Keys(files) : f.stem = "cycle"}) = Len(cycles)
        /\ \A k \in 1..Len(cycles) :
               \E f \in Keys(files) :
                   /\ f.stem = "cycle" /\ f.index = k
                   /\ LET out == files.val[f]
                      IN /\ Draws(out, dependencies,
                                  Reach(dependencies, FirstSorted(cycles[k])))
                         /\ \A i \in Labels(out) :
                                out[i].fillcolor = "cyan"
                                <=> out[i].id \in Range(cycles[k])

(* C9 witness: a cycle of two or more whose first member in the returned   *)
(* list is not its first in sorted order and which reaches a non-member.  *)
C9_Witness ==
    /\ Returned("draw_cycles")
    /\ \E k \in 1..Len(cycles) :
           /\ Len(cycles[k]) >= 2
           /\ cycles[k][1] # FirstSorted(cycles[k])
           /\ Reach(dependencies, cycles[k][1]) # Range(cycles[k])

(* C10: in the list get_sccs_kosaraju returns for a total graph, no id of  *)
(* a later group has a dependency path to an id of an earlier group; the   *)
(* finishing stack of pass 1 holds every key of the graph exactly once.    *)
C10_EmissionOrder ==
    (Returned("get_cyclic_sccs") /\ Total(dependencies)) =>
        /\ \A i, j \in 1..Len(sccs) :
               i < j => \A x \in Range(sccs[j]) :
                            Reach(dependencies, x) \cap Range(sccs[i]) = {}
        /\ \A k \in Keys(dependencies) :
               Cardinality(Positions(<<finishing_stack(dependencies)>>, k)) = 1
        /\ Range(finishing_stack(dependencies)) \subseteq Keys(dependencies)

(* C10 witness: three or more groups, the first reaching the third and    *)
(* not the second.                                                        *)
C10_Witness ==
    /\ Returned("get_cyclic_sccs")
    /\ Total(dependencies)
    /\ Len(sccs) >= 3
    /\ \E x \in Range(sccs[1]) : Range(sccs[3]) \subseteq Reach(dependencies, x)
    /\ \E x \in Range(sccs[1]) : Range(sccs[2]) \cap Reach(dependencies, x) = {}

====
